---- MODULE Spec2Model ----
(***************************************************************************)
(* A model of the reorderable list of src/src/main.rs (DndDemo).           *)
(*                                                                         *)
(* One step of Spec is one call of DndDemo::demo, the per-frame update.    *)
(* Vertical positions are f32 in the source; every value the frame         *)
(* computes from the inputs below is an integer, so they are integers      *)
(* here.  Elapsed time dt is given in milliseconds.                        *)
(***************************************************************************)
EXTENDS Integers, Sequences, FiniteSets

(***************************************************************************)
(* Program constants.                                                      *)
(***************************************************************************)
ITEM_HEIGHT == 22
SLEW_RATE == 300
\* the drag is activated when the pointer is more than this far from start_pos
ActivationDistance == 5
\* last_few_clicks is trimmed once it holds more than this many records
ClickRecordLimit == 5
\* side of the square drag handle that senses clicks and drags
HandleSize == 20

(***************************************************************************)
(* Bounds of the model.                                                    *)
(***************************************************************************)
\* number of elements of the constructed list that are kept (a prefix)
ListLen == 6
\* number of frames of a run
MaxFrames == 3
\* longest list whose commit is checked in SpecCommit
MaxCommitLen == 6
\* SpecSlew: currents and targets are the multiples of SlewUnit up to this many units
\* either side of 0
MaxSlewUnits == 4
\* SpecSlew: number of updates of a run
MaxSlewSteps == 8

(***************************************************************************)
(* Option<T>: None is the empty sequence, Some(x) the sequence <<x>>.      *)
(***************************************************************************)
None == <<>>
Some(x) == <<x>>
IsSome(o) == Len(o) = 1
Unwrap(o) == o[1]

Pos2(px, py) == [x |-> px, y |-> py]

SlewPairDefault == [current |-> 0, target |-> 0]

Header(label) == [kind |-> "Header", value |-> 0, label |-> label]
Value(v) == [kind |-> "Value", value |-> v, label |-> ""]
IsHeader(element) == element.contents.kind = "Header"

\* Element::from_value, with the id new_scratch_nonce hands out
from_value(nonce, contents) ==
  [id |-> nonce, list_y |-> SlewPairDefault, drag_y |-> SlewPairDefault,
   is_selected |-> FALSE, contents |-> contents]

\* the contents DndDemo::new lists, in order
NewContents ==
  << Header("Group A"), Value(1), Value(2), Value(3), Header("Group B"),
     Value(4), Value(5), Value(6), Value(7) >>

\* new_scratch_nonce: the counter starts at 0, so the k-th element built gets id k-1
NewElements == [k \in 1..ListLen |-> from_value(k - 1, NewContents[k])]

(***************************************************************************)
(* Sequence helpers standing for the iterator adaptors of the source.      *)
(***************************************************************************)
RECURSIVE CountIf(_, _, _)
\* iter().take(n).filter(P).count() for P given as the set of indices it holds at
CountIf(holds, from, to) ==
  IF from > to THEN 0
  ELSE (IF from \in holds THEN 1 ELSE 0) + CountIf(holds, from + 1, to)

\* iter().position(|e| e.id == id): the 1-based index, 0 when there is none
Position(elements, id) ==
  IF \E i \in 1..Len(elements) : elements[i].id = id
  THEN CHOOSE i \in 1..Len(elements) :
         /\ elements[i].id = id
         /\ \A j \in 1..(i - 1) : elements[j].id /= id
  ELSE 0

(***************************************************************************)
(* SlewPair::update                                                        *)
(***************************************************************************)
Abs(n) == IF n < 0 THEN -n ELSE n
\* f32::signum: 1.0 for +0.0 and above, -1.0 below
Signum(n) == IF n >= 0 THEN 1 ELSE -1
Clamp(n, lo, hi) == IF n < lo THEN lo ELSE IF n > hi THEN hi ELSE n

\* SlewUpdate without the clamp of line 27
SlewUpdate_unclamped(pair, dt) ==
  LET diff == pair.target - pair.current
      delta == ((dt * SLEW_RATE) \div 1000) * Signum(diff)
  IN [pair EXCEPT !.current = pair.current + delta]

\* dt is in milliseconds; the inputs keep dt * SLEW_RATE a whole number
SlewUpdate(pair, dt) ==
  LET diff == pair.target - pair.current
      delta == Clamp(((dt * SLEW_RATE) \div 1000) * Signum(diff), -Abs(diff), Abs(diff))
  IN [pair EXCEPT !.current = pair.current + delta]

(***************************************************************************)
(* DndDemo::have_active_drag and DndDemo::is_part_of_drag                  *)
(***************************************************************************)
have_active_drag(drag_state) ==
  IF IsSome(drag_state) THEN Unwrap(drag_state).activated ELSE FALSE

\* is_part_of_drag without "|| element.is_selected": the grabbed item alone is carried
is_part_of_drag_grabbed_only(drag_state, element) ==
  IF IsHeader(element) THEN FALSE
  ELSE /\ have_active_drag(drag_state)
       /\ IF IsSome(drag_state)
          THEN Unwrap(drag_state).dragged_id = element.id
          ELSE FALSE

is_part_of_drag(drag_state, element) ==
  IF IsHeader(element) THEN FALSE
  ELSE /\ have_active_drag(drag_state)
       /\ IF IsSome(drag_state)
          THEN Unwrap(drag_state).dragged_id = element.id \/ element.is_selected
          ELSE FALSE

\* the indices of the elements a drag carries
PartIndices(drag_state, elements) ==
  {i \in 1..Len(elements) : is_part_of_drag(drag_state, elements[i])}

(***************************************************************************)
(* DndDemo::begin_drag                                                     *)
(***************************************************************************)
begin_drag(elements, mouse_pos, element_left_top, dragged_id) ==
  LET n == Len(elements)
      found == Position(elements, dragged_id)
      \* take_while(|e| e.id != dragged_id).count()
      count_before_drag_element == IF found = 0 THEN n ELSE found - 1
      selected == {i \in 1..n : elements[i].is_selected}
      selected_count_before_drag_element ==
        CountIf(selected, 1, count_before_drag_element)
      grouped == {i \in 1..n : elements[i].is_selected \/ elements[i].id = dragged_id}
      drag_y(i) == (i - 1 - count_before_drag_element) * ITEM_HEIGHT
      target_y(i) ==
        (CountIf(grouped, 1, i - 1) - selected_count_before_drag_element) * ITEM_HEIGHT
  IN [drag_state |->
        Some([activated |-> FALSE,
              start_pos |-> mouse_pos,
              offset |-> Pos2(element_left_top.x - mouse_pos.x,
                              element_left_top.y - mouse_pos.y),
              dragged_id |-> dragged_id]),
      elements |->
        [i \in 1..n |->
           IF i \in grouped
           THEN [elements[i] EXCEPT !.drag_y = [current |-> drag_y(i), target |-> target_y(i)]]
           ELSE elements[i]]]

(***************************************************************************)
(* DndDemo::clear_drag_state                                               *)
(***************************************************************************)
ClearSelection(elements) ==
  [i \in 1..Len(elements) |-> [elements[i] EXCEPT !.is_selected = FALSE]]

\* CommitOrder splitting one element early
CommitOrder_split_early(elements, drag_state, split_point) ==
  LET part(e) == is_part_of_drag(drag_state, e)
      rest(e) == ~part(e)
      before == SelectSeq(SubSeq(elements, 1, split_point - 1), rest)
      middle == SelectSeq(elements, part)
      after == SelectSeq(SubSeq(elements, split_point, Len(elements)), rest)
  IN before \o middle \o after

\* CommitOrder without the filter on after
CommitOrder_after_unfiltered(elements, drag_state, split_point) ==
  LET part(e) == is_part_of_drag(drag_state, e)
      rest(e) == ~part(e)
      before == SelectSeq(SubSeq(elements, 1, split_point), rest)
      middle == SelectSeq(elements, part)
      after == SubSeq(elements, split_point + 1, Len(elements))
  IN before \o middle \o after

\* CommitOrder chaining the carried elements first
CommitOrder_middle_first(elements, drag_state, split_point) ==
  LET part(e) == is_part_of_drag(drag_state, e)
      rest(e) == ~part(e)
      before == SelectSeq(SubSeq(elements, 1, split_point), rest)
      middle == SelectSeq(elements, part)
      after == SelectSeq(SubSeq(elements, split_point + 1, Len(elements)), rest)
  IN middle \o before \o after

\* lines 145-149: before.chain(middle).chain(after)
CommitOrder(elements, drag_state, split_point) ==
  LET part(e) == is_part_of_drag(drag_state, e)
      rest(e) == ~part(e)
      before == SelectSeq(SubSeq(elements, 1, split_point), rest)
      middle == SelectSeq(elements, part)
      after == SelectSeq(SubSeq(elements, split_point + 1, Len(elements)), rest)
  IN before \o middle \o after

\* clear_drag_state without the loop that clears the selection
clear_drag_state_keeps_selection(elements, drag_state, split_point) ==
  IF ~have_active_drag(drag_state)
  THEN [elements |-> elements, drag_state |-> None]
  ELSE [elements |-> CommitOrder(elements, drag_state, split_point),
        drag_state |-> None]

\* clear_drag_state clearing the selection on the early return too
clear_drag_state_always_clears(elements, drag_state, split_point) ==
  IF ~have_active_drag(drag_state)
  THEN [elements |-> ClearSelection(elements), drag_state |-> None]
  ELSE [elements |-> ClearSelection(CommitOrder(elements, drag_state, split_point)),
        drag_state |-> None]

\* clear_drag_state whose early return leaves drag_state alone
clear_drag_state_keeps_pending(elements, drag_state, split_point) ==
  IF ~have_active_drag(drag_state)
  THEN [elements |-> elements, drag_state |-> drag_state]
  ELSE [elements |-> ClearSelection(CommitOrder(elements, drag_state, split_point)),
        drag_state |-> None]

\* clear_drag_state without line 150: a committed drag state stays
clear_drag_state_keeps_active(elements, drag_state, split_point) ==
  IF ~have_active_drag(drag_state)
  THEN [elements |-> elements, drag_state |-> None]
  ELSE [elements |-> ClearSelection(CommitOrder(elements, drag_state, split_point)),
        drag_state |-> drag_state]

clear_drag_state(elements, drag_state, split_point) ==
  IF ~have_active_drag(drag_state)
  THEN [elements |-> elements, drag_state |-> None]
  ELSE [elements |-> ClearSelection(CommitOrder(elements, drag_state, split_point)),
        drag_state |-> None]

(***************************************************************************)
(* The state: the fields of DndDemo, what the host reported to the last    *)
(* frame, and the locals of demo as that frame left them.                  *)
(* drop_region_hovered is written by every frame and read by none; it is   *)
(* left out.  ClickRecord.time is never read and is left out too.          *)
(***************************************************************************)
VARIABLES
  elements,         \* DndDemo.elements
  drag_state,       \* DndDemo.drag_state
  split_point,      \* DndDemo.split_point
  last_few_clicks,  \* DndDemo.last_few_clicks
  mouse_pos,        \* demo: inp.pointer.interact_pos() of the last frame
  host_dragging,    \* demo: mem.is_anything_being_dragged() at the start of the last frame
  begin_drag_args,  \* demo: the local begin_drag_args at the end of the last frame
  clear_drag_flag,  \* demo: the local clear_drag_flag at the end of the last frame
  range_select,     \* demo: the local range_select at the end of the last frame
  committed,        \* whether the last frame (or commit step) reordered through clear_drag_state
  panicked,         \* a frame hit a panic (unwrap of None, split_at out of range)
  frames,           \* number of frames run
  slew_run          \* SpecSlew: the dt and the first pair of a run of updates (None elsewhere)

vars == << elements, drag_state, split_point, last_few_clicks, mouse_pos, host_dragging,
           begin_drag_args, clear_drag_flag, range_select, committed, panicked, frames,
           slew_run >>

(***************************************************************************)
(* What the host hands to a frame.                                         *)
(***************************************************************************)
\* ui.next_widget_position(): where the list is placed in the window
Spot == Pos2(0, 0)

\* pointer positions a frame may see: one above the centre of the first row, one on
\* the handle of the second row, two beside that handle (5 and 6 units from the
\* position on it), one on the handle of the sixth row
PointerPositions == {Pos2(0, 5), Pos2(18, 34), Pos2(21, 38), Pos2(24, 34), Pos2(0, 122)}

\* elapsed times in milliseconds: a slow slew (15 units) and one that reaches any target
FrameDts == {50, 1000}

NoTarget == -1

\* The responses of one frame (the record Input builds): one pointer acts on at most one
\* handle per frame, and target is the id of the element whose handle reports
\* clicked / drag_started (NoTarget when none does).

(***************************************************************************)
(* DndDemo::demo, piece by piece.                                          *)
(***************************************************************************)
\* layout_static that sets the targets and leaves current to the slew
layout_static_targets_only(els) ==
  [i \in 1..Len(els) |-> [els[i] EXCEPT !.list_y.target = (i - 1) * ITEM_HEIGHT]]

\* lines 260-267
layout_static(els) ==
  [i \in 1..Len(els) |->
     [els[i] EXCEPT !.list_y = [current |-> (i - 1) * ITEM_HEIGHT,
                                target |-> (i - 1) * ITEM_HEIGHT]]]

\* lines 296-300: the row of an element
RowTop(element) == Spot.y + element.list_y.current

\* lines 185-186: the handle is the first widget of the row
\* HandleHit without the test of line 184: a header has a handle too
HandleHit_headers_too(element, pos) ==
  /\ Spot.x <= pos.x /\ pos.x <= Spot.x + HandleSize
  /\ RowTop(element) <= pos.y /\ pos.y <= RowTop(element) + HandleSize

HandleHit(element, pos) ==
  /\ ~IsHeader(element)
  /\ Spot.x <= pos.x /\ pos.x <= Spot.x + HandleSize
  /\ RowTop(element) <= pos.y /\ pos.y <= RowTop(element) + HandleSize

\* ComputeSplitPoint starting from 0 instead of 1
ComputeSplitPoint_from_zero(els, ds, pos) ==
  LET above == {i \in 1..Len(els) :
                  /\ ~is_part_of_drag(ds, els[i])
                  /\ 2 * pos.y > 2 * RowTop(els[i]) + ITEM_HEIGHT}
  IN IF above = {} THEN 0
     ELSE CHOOSE i \in above : \A j \in above : j <= i

\* ComputeSplitPoint counting one element more than line 312
ComputeSplitPoint_one_past(els, ds, pos) ==
  LET above == {i \in 1..Len(els) :
                  /\ ~is_part_of_drag(ds, els[i])
                  /\ 2 * pos.y > 2 * RowTop(els[i]) + ITEM_HEIGHT}
  IN IF above = {} THEN 1
     ELSE 1 + CHOOSE i \in above : \A j \in above : j <= i

\* lines 272, 311-313: the last element not carried whose centre is above the pointer
ComputeSplitPoint(els, ds, pos) ==
  LET above == {i \in 1..Len(els) :
                  /\ ~is_part_of_drag(ds, els[i])
                  /\ 2 * pos.y > 2 * RowTop(els[i]) + ITEM_HEIGHT}
  IN IF above = {} THEN 1
     ELSE CHOOSE i \in above : \A j \in above : j <= i

\* lines 187-207: a click on the element at 1-based index i
ClickElement(els, i) ==
  [els EXCEPT ![i].is_selected = ~els[i].is_selected]

ClickRangeSelect(clicks, id, ctrl_held) ==
  IF Len(clicks) > 0 /\ ctrl_held
  THEN Some(<< clicks[Len(clicks)].id, id >>)
  ELSE None

PushClick(clicks, id, index, ctrl_held) ==
  LET pushed == Append(clicks, [id |-> id, index |-> index, ctrl_held |-> ctrl_held])
  IN IF Len(pushed) > ClickRecordLimit THEN Tail(pushed) ELSE pushed

\* layout_during_drag opening the gap one element late
layout_during_drag_gap_late(els, ds, split, drag_count) ==
  LET rest == {i \in 1..Len(els) : ~is_part_of_drag(ds, els[i])}
      y(i) == CountIf(rest, 1, i - 1) * ITEM_HEIGHT
              + (IF split < i - 1 THEN ITEM_HEIGHT * drag_count ELSE 0)
  IN [i \in 1..Len(els) |->
        IF i \in rest THEN [els[i] EXCEPT !.list_y.target = y(i)] ELSE els[i]]

\* lines 325-337
layout_during_drag(els, ds, split, drag_count) ==
  LET rest == {i \in 1..Len(els) : ~is_part_of_drag(ds, els[i])}
      \* y when the loop reaches the element at 1-based index i
      y(i) == CountIf(rest, 1, i - 1) * ITEM_HEIGHT
              + (IF split <= i - 1 THEN ITEM_HEIGHT * drag_count ELSE 0)
  IN [i \in 1..Len(els) |->
        IF i \in rest THEN [els[i] EXCEPT !.list_y.target = y(i)] ELSE els[i]]

\* Activate with >= in place of >
Activate_at_threshold(ds, pos) ==
  LET dx == pos.x - ds.start_pos.x
      dy == pos.y - ds.start_pos.y
  IN [ds EXCEPT !.activated =
        ds.activated \/ (dx * dx + dy * dy >= ActivationDistance * ActivationDistance)]

\* line 345
Activate(ds, pos) ==
  LET dx == pos.x - ds.start_pos.x
      dy == pos.y - ds.start_pos.y
  IN [ds EXCEPT !.activated =
        ds.activated \/ (dx * dx + dy * dy > ActivationDistance * ActivationDistance)]

\* lines 346-367: the grabbed element's drag_y restarts at 0, then every element
\* slews the pair it is drawn with
slew_elements(els, ds, dt) ==
  LET g == Position(els, Unwrap(ds).dragged_id)
      grabbed == [els EXCEPT ![g].drag_y.current = 0]
  IN [i \in 1..Len(els) |->
        IF is_part_of_drag(ds, grabbed[i])
        THEN [grabbed[i] EXCEPT !.drag_y = SlewUpdate(grabbed[i].drag_y, dt)]
        ELSE [grabbed[i] EXCEPT !.list_y = SlewUpdate(grabbed[i].list_y, dt)]]

\* apply_range_select without the swap of line 377: elements[a..=b] as given
apply_range_select_unordered(els, range) ==
  IF ~IsSome(range) THEN els
  ELSE LET a == Position(els, Unwrap(range)[1])
           b == Position(els, Unwrap(range)[2])
       IN IF a = 0 \/ b = 0 THEN els
          ELSE [i \in 1..Len(els) |->
                  IF a <= i /\ i <= b THEN [els[i] EXCEPT !.is_selected = TRUE]
                  ELSE els[i]]

\* lines 374-382
apply_range_select(els, range) ==
  IF ~IsSome(range) THEN els
  ELSE LET a == Position(els, Unwrap(range)[1])
           b == Position(els, Unwrap(range)[2])
           lo == IF a < b THEN a ELSE b
           hi == IF a < b THEN b ELSE a
       IN IF a = 0 \/ b = 0 THEN els
          ELSE [i \in 1..Len(els) |->
                  IF lo <= i /\ i <= hi THEN [els[i] EXCEPT !.is_selected = TRUE]
                  ELSE els[i]]

(***************************************************************************)
(* DndDemo::demo: one frame, from the host's inputs to the state it leaves. *)
(***************************************************************************)
\* clear_drag_state panics in split_at when split_point is past the end
ClearPanics(els, ds, split) == have_active_drag(ds) /\ split > Len(els)

\* a response is reported by the handle under the pointer, and by no header
InputPossible(inp, drawn) ==
  IF inp.target = NoTarget
  THEN ~inp.clicked /\ ~inp.ctrl /\ ~inp.drag_started
  ELSE /\ Position(drawn, inp.target) /= 0
       /\ HandleHit(drawn[Position(drawn, inp.target)], inp.mouse_pos)
       /\ (inp.clicked \/ inp.drag_started)
       /\ (inp.ctrl => inp.clicked)

\* Each stage of the frame is bound once (\E over a one-element set) so that a
\* later stage reads the value an earlier one computed.
Frame(inp) ==
  /\ ~panicked
  /\ frames < MaxFrames
  \* lines 246-248
  /\ \E c0 \in {IF ~inp.dragging /\ ~ClearPanics(elements, drag_state, split_point)
                THEN clear_drag_state(elements, drag_state, split_point)
                ELSE [elements |-> elements, drag_state |-> drag_state]} :
     \* line 249
     \E had_active_drag \in {have_active_drag(c0.drag_state)} :
     \* lines 260-267
     \E e1 \in {IF ~had_active_drag THEN layout_static(c0.elements) ELSE c0.elements} :
     \* line 269
     \E drag_count \in {Cardinality(PartIndices(c0.drag_state, e1))} :
     \* lines 272-314: the draw loop
     \E split \in {ComputeSplitPoint(e1, c0.drag_state, inp.mouse_pos)} :
     \E t \in {IF inp.target = NoTarget THEN 0 ELSE Position(e1, inp.target)} :
     /\ InputPossible(inp, e1)
     /\ \E e2 \in {IF inp.clicked THEN ClickElement(e1, t) ELSE e1} :
        \E range \in {IF inp.clicked
                      THEN ClickRangeSelect(last_few_clicks, inp.target, inp.ctrl)
                      ELSE None} :
        \E begin \in {IF inp.drag_started
                      THEN Some(<< Pos2(Spot.x, RowTop(e1[t])), inp.target >>)
                      ELSE None} :
        \* lines 317-319
        \E b \in {IF IsSome(begin)
                  THEN begin_drag(e2, inp.mouse_pos, Unwrap(begin)[1], Unwrap(begin)[2])
                  ELSE [elements |-> e2, drag_state |-> c0.drag_state]} :
        \* lines 321-323
        \E c1 \in {IF inp.released /\ ~ClearPanics(b.elements, b.drag_state, split)
                   THEN clear_drag_state(b.elements, b.drag_state, split)
                   ELSE b} :
        \* lines 325-337
        \E e3 \in {IF had_active_drag
                   THEN layout_during_drag(c1.elements, c1.drag_state, split, drag_count)
                   ELSE c1.elements} :
        \* lines 343-345
        \E ds \in {IF IsSome(c1.drag_state)
                   THEN Some(Activate(Unwrap(c1.drag_state), inp.mouse_pos))
                   ELSE None} :
        \E panic \in {\/ ~inp.dragging /\ ClearPanics(elements, drag_state, split_point)
                      \/ inp.released /\ ClearPanics(b.elements, b.drag_state, split)
                      \/ have_active_drag(ds) /\ Position(e3, Unwrap(ds).dragged_id) = 0} :
        \* lines 346-372
        \E e4 \in {IF have_active_drag(ds) /\ ~panic
                   THEN slew_elements(e3, ds, inp.dt)
                   ELSE e3} :
          /\ frames' = frames + 1
          /\ UNCHANGED slew_run
          /\ mouse_pos' = inp.mouse_pos
          /\ host_dragging' = inp.dragging
          /\ panicked' = panic
          /\ IF panic
             THEN UNCHANGED << elements, drag_state, split_point, last_few_clicks,
                               begin_drag_args, clear_drag_flag, range_select, committed >>
             ELSE /\ elements' = apply_range_select(e4, range)   \* lines 374-382
                  /\ drag_state' = ds
                  /\ split_point' = split
                  /\ last_few_clicks' =
                       IF inp.clicked
                       THEN PushClick(last_few_clicks, inp.target, t - 1, inp.ctrl)
                       ELSE last_few_clicks
                  /\ begin_drag_args' = begin
                  /\ clear_drag_flag' = inp.released
                  /\ range_select' = range
                  /\ committed' = \/ ~inp.dragging /\ have_active_drag(drag_state)
                                  \/ inp.released /\ have_active_drag(b.drag_state)

\* DndDemo::new, before the first frame
Init ==
  /\ elements = NewElements
  /\ drag_state = None
  /\ split_point = 0
  /\ last_few_clicks = << >>
  /\ mouse_pos = Pos2(0, 0)
  /\ host_dragging = FALSE
  /\ begin_drag_args = None
  /\ clear_drag_flag = FALSE
  /\ range_select = None
  /\ committed = FALSE
  /\ panicked = FALSE
  /\ frames = 0
  /\ slew_run = None

\* the elements as the draw loop of a frame finds them (lines 246-267)
DrawnElements(dragging) ==
  LET c0 == IF ~dragging /\ ~ClearPanics(elements, drag_state, split_point)
            THEN clear_drag_state(elements, drag_state, split_point)
            ELSE [elements |-> elements, drag_state |-> drag_state]
  IN IF ~have_active_drag(c0.drag_state) THEN layout_static(c0.elements) ELSE c0.elements

\* the ids of the elements whose handle is under the pointer
HitTargets(drawn, pos) ==
  {drawn[i].id : i \in {j \in 1..Len(drawn) : HandleHit(drawn[j], pos)}}

\* dt is read by the slew update alone (line 357), which runs only for a drag state
\* that an earlier frame created: without one, every dt gives the same frame
DtsRead == IF IsSome(drag_state) THEN FrameDts ELSE {CHOOSE dt \in FrameDts : TRUE}

Input(dt, pos, dragging, target, clicked, ctrl, drag_started, released) ==
  [dt |-> dt, mouse_pos |-> pos, dragging |-> dragging, target |-> target,
   clicked |-> clicked, ctrl |-> ctrl, drag_started |-> drag_started, released |-> released]

\* a frame in which no handle reports anything and no drag is released
FrameQuiet ==
  \E dragging \in BOOLEAN, pos \in PointerPositions, dt \in DtsRead :
    Frame(Input(dt, pos, dragging, NoTarget, FALSE, FALSE, FALSE, FALSE))

\* a frame in which a handle reports a click (with or without the modifier held)
FrameClick ==
  \E dragging \in BOOLEAN, pos \in PointerPositions, dt \in DtsRead, ctrl \in BOOLEAN :
    \E target \in HitTargets(DrawnElements(dragging), pos) :
      Frame(Input(dt, pos, dragging, target, TRUE, ctrl, FALSE, FALSE))

\* a frame in which a handle reports drag_started, alone or with a click
FrameDragStart ==
  \E dragging \in BOOLEAN, pos \in PointerPositions, dt \in DtsRead :
    \E target \in HitTargets(DrawnElements(dragging), pos) :
      \E clicked \in BOOLEAN :
        \E ctrl \in IF clicked THEN BOOLEAN ELSE {FALSE} :
          Frame(Input(dt, pos, dragging, target, clicked, ctrl, TRUE, FALSE))

\* a frame in which a handle reports drag_released, alone or with a click or a drag start
FrameDragReleased ==
  \E dragging \in BOOLEAN, pos \in PointerPositions, dt \in DtsRead :
    \E target \in {NoTarget} \cup HitTargets(DrawnElements(dragging), pos) :
      \E clicked \in IF target = NoTarget THEN {FALSE} ELSE BOOLEAN :
        \E drag_started \in IF target = NoTarget THEN {FALSE} ELSE BOOLEAN :
          \E ctrl \in IF clicked THEN BOOLEAN ELSE {FALSE} :
            Frame(Input(dt, pos, dragging, target, clicked, ctrl, drag_started, TRUE))

Next == FrameQuiet \/ FrameClick \/ FrameDragStart \/ FrameDragReleased

Spec == Init /\ [][Next]_vars

(***************************************************************************)
(* SpecCommit: clear_drag_state on its own, applied once to the lists,     *)
(* selections, drag states and split points up to a length.                *)
(***************************************************************************)
\* a list of n elements with ids 0..n-1: a header first, a second header at index h
\* when h > 1, and Value(k) at index k elsewhere (0-based)
CommitList(n, h, selected) ==
  layout_static(
    [k \in 1..n |->
       [from_value(k - 1, IF k = 1 \/ k = h THEN Header("Group") ELSE Value(k - 1))
          EXCEPT !.is_selected = k \in selected]])

CommitDragStates(els) ==
  {None} \cup
  {Some([activated |-> a, start_pos |-> Pos2(0, 0), offset |-> Pos2(0, 0),
         dragged_id |-> els[i].id]) :
     a \in BOOLEAN, i \in {j \in 1..Len(els) : ~IsHeader(els[j])}}

InitCommit ==
  /\ \E n \in 2..MaxCommitLen :
       /\ \E h \in 1..n, selected \in SUBSET (2..n) : elements = CommitList(n, h, selected)
       /\ split_point \in 1..n
  /\ drag_state \in CommitDragStates(elements)
  /\ last_few_clicks = << >>
  /\ mouse_pos = Pos2(0, 0)
  /\ host_dragging = FALSE
  /\ begin_drag_args = None
  /\ clear_drag_flag = FALSE
  /\ range_select = None
  /\ committed = FALSE
  /\ panicked = FALSE
  /\ frames = 0
  /\ slew_run = None

\* one call of clear_drag_state
CommitStep ==
  /\ frames = 0
  /\ \E c \in {clear_drag_state(elements, drag_state, split_point)} :
       /\ elements' = c.elements
       /\ drag_state' = c.drag_state
  /\ committed' = have_active_drag(drag_state)
  /\ frames' = 1
  /\ UNCHANGED << split_point, last_few_clicks, mouse_pos, host_dragging, begin_drag_args,
                  clear_drag_flag, range_select, panicked, slew_run >>

SpecCommit == InitCommit /\ [][CommitStep]_vars

\* a second call of clear_drag_state (lines 246-248 after lines 321-323 of the frame
\* before, or lines 321-323 after lines 246-248), with whatever split point the draw
\* loop has left by then
CommitAgain ==
  /\ frames = 1
  /\ \E s \in 1..Len(elements) :
       /\ split_point' = s
       /\ \E c \in {clear_drag_state(elements, drag_state, s)} :
            /\ elements' = c.elements
            /\ drag_state' = c.drag_state
  /\ committed' = have_active_drag(drag_state)
  /\ frames' = 2
  /\ UNCHANGED << last_few_clicks, mouse_pos, host_dragging, begin_drag_args,
                  clear_drag_flag, range_select, panicked, slew_run >>

SpecCommitTwice == InitCommit /\ [][CommitStep \/ CommitAgain]_vars

(***************************************************************************)
(* SpecSlew: SlewPair::update on its own, applied again and again with one *)
(* dt to the list_y of one element whose target stays as it started.       *)
(***************************************************************************)
\* the distance between neighbouring start values: half a row
SlewUnit == ITEM_HEIGHT \div 2

SlewPositions == {k * SlewUnit : k \in (0 - MaxSlewUnits)..MaxSlewUnits}

\* elapsed times in milliseconds whose product with SLEW_RATE is a whole number of
\* units in f32 as well: 15, 30 and 300
SlewDts == {50, 100, 1000}

InitSlew ==
  /\ \E c \in SlewPositions, t \in SlewPositions, dt \in SlewDts :
       /\ elements = << [from_value(0, Value(1)) EXCEPT
                           !.list_y = [current |-> c, target |-> t]] >>
       /\ slew_run = Some([dt |-> dt, start |-> [current |-> c, target |-> t]])
  /\ drag_state = None
  /\ split_point = 0
  /\ last_few_clicks = << >>
  /\ mouse_pos = Pos2(0, 0)
  /\ host_dragging = FALSE
  /\ begin_drag_args = None
  /\ clear_drag_flag = FALSE
  /\ range_select = None
  /\ committed = FALSE
  /\ panicked = FALSE
  /\ frames = 0

\* line 357: y.update(dt)
SlewStep ==
  /\ frames < MaxSlewSteps
  /\ elements' = [elements EXCEPT ![1].list_y = SlewUpdate(@, Unwrap(slew_run).dt)]
  /\ frames' = frames + 1
  /\ UNCHANGED << drag_state, split_point, last_few_clicks, mouse_pos, host_dragging,
                  begin_drag_args, clear_drag_flag, range_select, committed, panicked,
                  slew_run >>

SpecSlew == InitSlew /\ [][SlewStep]_vars

\* the host keeps calling update
SpecSlewFair == SpecSlew /\ WF_vars(SlewStep)

(***************************************************************************)
(* Vocabulary of the properties.                                           *)
(***************************************************************************)
Ids(els) == [i \in 1..Len(els) |-> els[i].id]
Values(els) == [i \in 1..Len(els) |-> els[i].contents.value]
HeaderIndices(els) == {i \in 1..Len(els) : IsHeader(els[i])}
SelectedIndices(els) == {i \in 1..Len(els) : els[i].is_selected}
NoneSelected(els) == SelectedIndices(els) = {}
IndexOfValue(els, v) == CHOOSE i \in 1..Len(els) : ~IsHeader(els[i]) /\ els[i].contents.value = v

\* the carried set the documentation describes for an activated drag: the grabbed
\* item and every selected item, headers left out
CarriedIndices(ds, els) ==
  IF IsSome(ds) /\ Unwrap(ds).activated
  THEN {i \in 1..Len(els) :
          ~IsHeader(els[i]) /\ (els[i].id = Unwrap(ds).dragged_id \/ els[i].is_selected)}
  ELSE {}

\* where the stable three-way partition at split point s with carried indices C puts
\* the item at index i: the items of 1..s outside C, then C, then the rest
PartitionIndex(i, s, C, n) ==
  LET outside(a, b) == Cardinality({j \in a..b : j \notin C})
      inside(a, b) == Cardinality({j \in a..b : j \in C})
  IN IF i \in C THEN outside(1, s) + inside(1, i)
     ELSE IF i <= s THEN outside(1, i)
     ELSE outside(1, i) + Cardinality(C)

\* after is before, reordered by the three-way partition at s with carried indices C
IsPartitionOf(after, before, s, C) ==
  /\ Len(after) = Len(before)
  /\ \A i \in 1..Len(before) :
       after[PartitionIndex(i, s, C, Len(before))].id = before[i].id

\* the list [H, 1, 2, 3, 4, 5] of the documentation's examples, with the values in
\* sel selected, an activated drag that grabbed the value g, and split point s
IsExample(els, ds, split, sel, g, s) ==
  /\ Values(els) = << 0, 1, 2, 3, 4, 5 >>
  /\ HeaderIndices(els) = {1}
  /\ SelectedIndices(els) = {IndexOfValue(els, v) : v \in sel}
  /\ have_active_drag(ds)
  /\ Unwrap(ds).dragged_id = els[IndexOfValue(els, g)].id
  /\ split = s

(***************************************************************************)
(* C1: the commit of an activated drag with split point s and carried set  *)
(* C replaces the list by the non-carried items of elements[0..s), then    *)
(* the carried items, then the non-carried items of elements[s..), each in *)
(* original order; [H,1,2,3,4,5] with 2 and 4 selected, dragging 2, split  *)
(* point 4 gives [H,1,3,2,4,5].                                            *)
(***************************************************************************)
C1_CommitIsStablePartition ==
  [][have_active_drag(drag_state) =>
       /\ IsPartitionOf(elements', elements, split_point,
                        CarriedIndices(drag_state, elements))
       /\ IsExample(elements, drag_state, split_point, {2, 4}, 2, 4)
            => Values(elements') = << 0, 1, 3, 2, 4, 5 >>]_vars

\* the example has been committed
C1_Witness ==
  /\ committed
  /\ split_point = 4
  /\ Values(elements) = << 0, 1, 3, 2, 4, 5 >>
  /\ HeaderIndices(elements) = {1}

(***************************************************************************)
(* C2 as claimed: when the grabbed item is not selected, the drop moves    *)
(* the grabbed item only; [H,1,2,3,4,5] with 2 and 4 selected, dragging 3  *)
(* to split point 1 gives [H,3,1,2,4,5] with no item selected.             *)
(***************************************************************************)
GrabbedIndex(ds, els) == Position(els, Unwrap(ds).dragged_id)

C2_GrabbedAloneIsCarried ==
  [][(have_active_drag(drag_state)
      /\ ~elements[GrabbedIndex(drag_state, elements)].is_selected) =>
       /\ IsPartitionOf(elements', elements, split_point,
                        {GrabbedIndex(drag_state, elements)})
       /\ IsExample(elements, drag_state, split_point, {2, 4}, 3, 1)
            => Values(elements') = << 0, 3, 1, 2, 4, 5 >> /\ NoneSelected(elements')]_vars

(***************************************************************************)
(* C2 as amended: when the grabbed item is not selected, the drop moves    *)
(* the grabbed item and every selected Value item; [H,1,2,3,4,5] with 2    *)
(* and 4 selected, dragging 3 to split point 1 gives [H,2,3,4,1,5] with no *)
(* item selected.                                                          *)
(***************************************************************************)
C2_GrabbedAndSelectedAreCarried ==
  [][(have_active_drag(drag_state)
      /\ ~elements[GrabbedIndex(drag_state, elements)].is_selected) =>
       /\ IsPartitionOf(elements', elements, split_point,
                        {GrabbedIndex(drag_state, elements)}
                          \cup (SelectedIndices(elements) \ HeaderIndices(elements)))
       /\ NoneSelected(elements')
       /\ IsExample(elements, drag_state, split_point, {2, 4}, 3, 1)
            => Values(elements') = << 0, 2, 3, 4, 1, 5 >>]_vars

\* the example has been committed
C2_Witness ==
  /\ committed
  /\ split_point = 1
  /\ Values(elements) = << 0, 2, 3, 4, 1, 5 >>
  /\ HeaderIndices(elements) = {1}

(***************************************************************************)
(* C3: once the commit step of an activated drag has run, no item is       *)
(* selected.                                                               *)
(***************************************************************************)
C3_CommitClearsSelection == committed => NoneSelected(elements)

\* a commit that carried at least two items has run
C3_Witness ==
  /\ committed
  /\ Values(elements) = << 0, 1, 3, 2, 4, 5 >>

(***************************************************************************)
(* C4 as claimed: ending a drag that was never activated leaves the order  *)
(* of the items unchanged and clears every selected flag.                  *)
(***************************************************************************)
PendingDrag(ds) == IsSome(ds) /\ ~Unwrap(ds).activated

C4_PendingEndClearsSelection ==
  [][PendingDrag(drag_state) =>
       Ids(elements') = Ids(elements) /\ NoneSelected(elements')]_vars

(***************************************************************************)
(* C4 as amended: ending a drag that was never activated discards the      *)
(* DragState and leaves the items, their order and their selected flags    *)
(* as they were.                                                           *)
(***************************************************************************)
C4_PendingEndKeepsSelection ==
  [][PendingDrag(drag_state) =>
       /\ drag_state' = None
       /\ Ids(elements') = Ids(elements)
       /\ SelectedIndices(elements') = SelectedIndices(elements)]_vars

\* a pending drag was ended while items were selected
C4_Witness ==
  /\ frames = 1
  /\ ~committed
  /\ drag_state = None
  /\ Cardinality(SelectedIndices(elements)) >= 2

(***************************************************************************)
(* C5: in every reachable state the item at index 0 is the header the list *)
(* was created with.                                                       *)
(***************************************************************************)
C5_HeaderStaysFirst ==
  /\ Len(elements) >= 1
  /\ IsHeader(elements[1])
  /\ elements[1].id = NewElements[1].id
  /\ elements[1].contents = NewContents[1]

\* a drop at the smallest split point has moved an item to just below the header
C5_Witness ==
  /\ committed
  /\ split_point = 1
  /\ elements[2].id /= NewElements[2].id

(***************************************************************************)
(* C6: in every reachable state no header is selected and no header is     *)
(* carried; a range selection spanning a header selects the non-header     *)
(* items of the range only.                                                *)
(***************************************************************************)
C6_HeadersNeverSelectedNorCarried ==
  \A i \in HeaderIndices(elements) :
    /\ ~elements[i].is_selected
    /\ i \notin PartIndices(drag_state, elements)

(***************************************************************************)
(* C7: the list always holds exactly the items it was constructed with:    *)
(* the ids are pairwise distinct and no item is lost or duplicated.        *)
(***************************************************************************)
C7_ItemsArePermuted ==
  /\ Len(elements) = ListLen
  /\ {elements[i].id : i \in 1..Len(elements)} = {NewElements[k].id : k \in 1..ListLen}
  /\ \A i \in 1..Len(elements) : elements[i].contents = NewContents[elements[i].id + 1]

\* a commit has changed the order of the list
C7_Witness ==
  /\ committed
  /\ Ids(elements) /= Ids(NewElements)

(***************************************************************************)
(* C8: from no selection, a click on A followed by a modifier-click on B   *)
(* leaves every Value item of the inclusive index range between A and B    *)
(* selected and no item outside it, whichever of the two is clicked first; *)
(* in any frame a range selection selects the range and selects nothing    *)
(* outside it.                                                             *)
(***************************************************************************)
InRange(els, i, a, b) ==
  LET pa == Position(els, a)
      pb == Position(els, b)
  IN (pa <= i /\ i <= pb) \/ (pb <= i /\ i <= pa)

C8_AfterTwoClicks ==
  (frames = 2 /\ Len(last_few_clicks) = 2 /\ last_few_clicks[2].ctrl_held) =>
    \A i \in 1..Len(elements) :
      LET within == InRange(elements, i, last_few_clicks[1].id, last_few_clicks[2].id)
      IN /\ (within /\ ~IsHeader(elements[i])) => elements[i].is_selected
         /\ ~within => ~elements[i].is_selected

C8_RangeSelectStep ==
  IsSome(range_select') =>
    \A i \in 1..Len(elements') :
      LET within == InRange(elements', i, Unwrap(range_select')[1], Unwrap(range_select')[2])
          was == elements[Position(elements, elements'[i].id)].is_selected
      IN /\ (within /\ ~IsHeader(elements'[i])) => elements'[i].is_selected
         /\ ~within => (elements'[i].is_selected => was)
         /\ (~within /\ ~committed') => (elements'[i].is_selected = was)

C8_RangeSelection == []C8_AfterTwoClicks /\ [][C8_RangeSelectStep]_vars

\* the sixth element was clicked, then the second modifier-clicked: the Value items
\* from the second to the sixth are selected
C8_Witness ==
  /\ frames = 2
  /\ Len(last_few_clicks) = 2
  /\ last_few_clicks[1].id = 5
  /\ last_few_clicks[2].id = 1
  /\ last_few_clicks[2].ctrl_held
  /\ {2, 3, 4, 6} \subseteq SelectedIndices(elements)

(***************************************************************************)
(* C9: a drag stays pending while the pointer is within 5 units of         *)
(* start_pos, and then no item is carried and the layout has no gap; the   *)
(* frame that sees the pointer more than 5 units away makes it active.     *)
(***************************************************************************)
BeyondThreshold(pos, ds) ==
  (pos.x - ds.start_pos.x) * (pos.x - ds.start_pos.x)
    + (pos.y - ds.start_pos.y) * (pos.y - ds.start_pos.y) > 25

IsStaticLayout(els) ==
  \A i \in 1..Len(els) :
    els[i].list_y = [current |-> (i - 1) * 22, target |-> (i - 1) * 22]

C9_ActivationThreshold ==
  [][(IsSome(drag_state') /\ ~panicked') =>
       LET ds == Unwrap(drag_state')
       IN /\ BeyondThreshold(mouse_pos', ds) => ds.activated
          /\ ds.activated => (have_active_drag(drag_state) \/ BeyondThreshold(mouse_pos', ds))
          /\ ~ds.activated =>
               /\ PartIndices(drag_state', elements') = {}
               /\ ~have_active_drag(drag_state) => IsStaticLayout(elements')]_vars

\* the pointer has moved (5 units) since the drag started, and the drag is pending
C9_Witness ==
  /\ PendingDrag(drag_state)
  /\ mouse_pos /= Unwrap(drag_state).start_pos
  /\ host_dragging

(***************************************************************************)
(* C10: a frame that starts with the host reporting no drag gesture ends   *)
(* the DragState it finds: an activated drag is committed at the split     *)
(* point of the frame before and the selection cleared, a pending drag is  *)
(* dropped without reordering; a DragState is left only by a drag start of *)
(* that frame.                                                             *)
(***************************************************************************)
C10_HostCancelEndsDrag ==
  [][(frames' = frames + 1 /\ ~host_dragging' /\ ~panicked') =>
       /\ begin_drag_args' = None => drag_state' = None
       /\ ~have_active_drag(drag_state')
       /\ IF have_active_drag(drag_state)
          THEN /\ committed'
               /\ IsPartitionOf(elements', elements, split_point,
                                CarriedIndices(drag_state, elements))
               /\ last_few_clicks' = last_few_clicks => NoneSelected(elements')
          ELSE /\ ~committed'
               /\ Ids(elements') = Ids(elements)]_vars

\* a drag was committed by the host's cancellation alone, and moved an item
C10_Witness ==
  /\ committed
  /\ ~host_dragging
  /\ ~clear_drag_flag
  /\ Ids(elements) /= Ids(NewElements)

(***************************************************************************)
(* C11: SlewPair::update with a fixed target and a positive dt moves       *)
(* current toward target by at most dt * SLEW_RATE and never past it, so   *)
(* the distance to the target never grows; after k updates the distance is *)
(* the first distance less k * dt * SLEW_RATE, or 0 once that is used up;  *)
(* current reaches target exactly; and an update of a pair that is at its  *)
(* target changes nothing.                                                 *)
(***************************************************************************)
SlewRate(dt) == (dt * SLEW_RATE) \div 1000
SlewDistance(pair) == Abs(pair.target - pair.current)

C11_SlewStepApproaches ==
  LET before == elements[1].list_y
      after == elements'[1].list_y
  IN /\ after.target = before.target
     /\ Abs(after.current - before.current) <= SlewRate(Unwrap(slew_run).dt)
     /\ SlewDistance(after) <= SlewDistance(before)
     /\ before.current <= before.target =>
          (before.current <= after.current /\ after.current <= before.target)
     /\ before.current >= before.target =>
          (before.current >= after.current /\ after.current >= before.target)
     /\ before.current = before.target => after = before

C11_SlewStepsNeeded ==
  LET left == SlewDistance(Unwrap(slew_run).start) - frames * SlewRate(Unwrap(slew_run).dt)
  IN SlewDistance(elements[1].list_y) = IF left > 0 THEN left ELSE 0

C11_SlewConverges ==
  /\ [][C11_SlewStepApproaches]_vars
  /\ []C11_SlewStepsNeeded
  /\ <>[](elements[1].list_y.current = elements[1].list_y.target)

\* the slowest dt has closed the widest distance in six updates, and not in five
C11_Witness ==
  /\ frames = 6
  /\ Unwrap(slew_run).dt = 50
  /\ SlewDistance(Unwrap(slew_run).start) > 5 * SlewRate(50)
  /\ elements[1].list_y.current = elements[1].list_y.target

(***************************************************************************)
(* C12 as claimed: every header is at the index it was constructed at, in  *)
(* every reachable state.                                                  *)
(***************************************************************************)
C12_HeadersKeepIndex ==
  \A i \in HeaderIndices(NewElements) :
    i <= Len(elements) /\ elements[i].id = NewElements[i].id

(***************************************************************************)
(* C12 as amended: the headers keep their order among themselves and a     *)
(* header's index changes in a committing frame only; a commit puts the    *)
(* header where the three-way partition puts a non-carried item, which is  *)
(* its old index less the carried items that were above it, plus the       *)
(* number of carried items when it lies at or below the split point.       *)
(***************************************************************************)
HeaderIds(els) == SelectSeq(Ids(els), LAMBDA id : IsHeader(els[Position(els, id)]))

C12_HeadersShiftWithCarried ==
  [][/\ HeaderIds(elements') = HeaderIds(elements)
     /\ ~committed' => HeaderIndices(elements') = HeaderIndices(elements)
     /\ (have_active_drag(drag_state) /\ ~host_dragging' /\ ~panicked') =>
          \A i \in HeaderIndices(elements) :
            LET C == CarriedIndices(drag_state, elements)
                above == Cardinality({j \in C : j < i})
                to == i - above + (IF i > split_point THEN Cardinality(C) ELSE 0)
            IN elements'[to].id = elements[i].id]_vars

\* a drop has moved an item from below the second header to above it
C12_Witness ==
  /\ committed
  /\ \E i \in HeaderIndices(NewElements) :
       Position(elements, NewElements[i].id) = i + 1

(***************************************************************************)
(* C13: a frame that has no active drag once the host's cancellation is    *)
(* handled leaves the item at storage index i with list position current = *)
(* target = i * ITEM_HEIGHT, and laying out twice gives what laying out    *)
(* once gives.                                                             *)
(***************************************************************************)
C13_LayoutTwiceIsLayoutOnce ==
  /\ layout_static(layout_static(elements)) = layout_static(elements)
  /\ IsStaticLayout(layout_static(elements))

C13_StaticFrame ==
  ((~have_active_drag(drag_state) \/ ~host_dragging') /\ ~panicked') =>
    /\ IsStaticLayout(elements')
    /\ \A i \in 1..(Len(elements') - 1) :
         elements'[i].list_y.target < elements'[i + 1].list_y.target

C13_StaticLayout == []C13_LayoutTwiceIsLayoutOnce /\ [][C13_StaticFrame]_vars

\* a frame found the list reordered by a cancelled drag and laid it out statically
C13_Witness ==
  /\ committed
  /\ ~host_dragging
  /\ IsStaticLayout(elements)
  /\ Ids(elements) /= Ids(NewElements)
  /\ ~NoneSelected(elements)

(***************************************************************************)
(* C14: within a frame the range selection a click asks for is applied     *)
(* before the drag transitions of that frame: a drag started in the frame  *)
(* computes its drag_y offsets from the selection the range has extended,  *)
(* and a commit in the frame clears the selection the range has made, so   *)
(* that no item is selected after it.                                      *)
(***************************************************************************)
C14_RangeSelectBeforeDragTransitions ==
  [][(IsSome(range_select') /\ ~panicked') =>
       /\ IsSome(begin_drag_args') =>
            begin_drag(elements', mouse_pos', Unwrap(begin_drag_args')[1],
                       Unwrap(begin_drag_args')[2]).elements = elements'
       /\ (committed' /\ clear_drag_flag') => NoneSelected(elements')]_vars

(***************************************************************************)
(* C15: in a frame whose drag is active when the frame lays out (the drag  *)
(* was activated before and the host still reports a gesture), an item     *)
(* that is not carried and has r non-carried items before it gets the list *)
(* target r * ITEM_HEIGHT when its index is below the split point and      *)
(* (r + carried_count) * ITEM_HEIGHT otherwise, carried_count being the    *)
(* number of carried items the frame counted; the list target of a carried *)
(* item is left as it was; and in a frame without a click that ends with   *)
(* the drag still active, carried_count is the number of items carried.    *)
(***************************************************************************)
C15_DragLayoutStep ==
  (have_active_drag(drag_state) /\ host_dragging' /\ ~panicked' /\ range_select' = None) =>
    LET carried_count == Cardinality(PartIndices(drag_state, elements))
        carried == PartIndices(drag_state', elements')
        rest == (1..Len(elements')) \ carried
    IN /\ \A i \in rest :
            LET r == Cardinality({j \in rest : j < i})
            IN elements'[i].list_y.target =
                 IF i - 1 < split_point' THEN r * ITEM_HEIGHT
                 ELSE (r + carried_count) * ITEM_HEIGHT
       /\ \A i \in carried :
            elements'[i].list_y.target =
              elements[Position(elements, elements'[i].id)].list_y.target
       /\ (have_active_drag(drag_state') /\ last_few_clicks' = last_few_clicks) =>
            carried_count = Cardinality(carried)

C15_LayoutDuringDrag == [][C15_DragLayoutStep]_vars

\* an active drag carries two items or more, and an item that is not carried has been
\* given a target below the gap
C15_Witness ==
  /\ have_active_drag(drag_state)
  /\ host_dragging
  /\ range_select = None
  /\ Cardinality(PartIndices(drag_state, elements)) >= 2
  /\ \E i \in 1..Len(elements) :
       /\ i \notin PartIndices(drag_state, elements)
       /\ i - 1 >= split_point
       /\ elements[i].list_y.target =
            (i - 1 - Cardinality({j \in PartIndices(drag_state, elements) : j < i})
               + Cardinality(PartIndices(drag_state, elements))) * ITEM_HEIGHT
       /\ elements[i].list_y.target /= (i - 1) * ITEM_HEIGHT

(***************************************************************************)
(* C16: every commit of an activated drag splits the list at a split point *)
(* s with 1 <= s <= number of items, both when the host's cancellation     *)
(* commits with the split point of the frame before and when a release     *)
(* commits with the split point of its own frame; no frame fails in        *)
(* split_at.                                                               *)
(***************************************************************************)
C16_SplitPointAfterFrame ==
  /\ ~panicked
  /\ frames >= 1 => (1 <= split_point /\ split_point <= Len(elements))
  /\ have_active_drag(drag_state) => (1 <= split_point /\ split_point <= Len(elements))

C16_CommitSplit ==
  committed' =>
    LET s == IF ~host_dragging' /\ have_active_drag(drag_state)
             THEN split_point ELSE split_point'
    IN 1 <= s /\ s <= Len(elements) /\ IsHeader(elements'[1])

C16_SplitPointInBounds == []C16_SplitPointAfterFrame /\ [][C16_CommitSplit]_vars

\* a release has committed a drop below the last item
C16_Witness ==
  /\ committed
  /\ clear_drag_flag
  /\ host_dragging
  /\ split_point = Len(elements)
  /\ Ids(elements) /= Ids(NewElements)

(***************************************************************************)
(* C17: a DragState that is not destroyed keeps its start_pos, offset and  *)
(* dragged_id, and its activated flag only goes from false to true: a      *)
(* frame in which the host reports a gesture, so that the DragState it     *)
(* finds is not ended at its start, and which ends with a DragState, ends  *)
(* with that same DragState, activated if it was; and a DragState that     *)
(* appears where there was none is pending.  The steps are Idle to         *)
(* Pending, Pending to Active, and Pending or Active to Idle: there is no  *)
(* step from Active to Pending.                                            *)
(***************************************************************************)
C17_DragStateStep ==
  (~panicked' /\ IsSome(drag_state')) =>
    LET after == Unwrap(drag_state')
    IN IF IsSome(drag_state) /\ host_dragging'
       THEN /\ after.start_pos = Unwrap(drag_state).start_pos
            /\ after.offset = Unwrap(drag_state).offset
            /\ after.dragged_id = Unwrap(drag_state).dragged_id
            /\ Unwrap(drag_state).activated => after.activated
       ELSE ~after.activated

C17_OnlyActivationChanges == [][C17_DragStateStep]_vars

(***************************************************************************)
(* C18: while a drag stays active the set of carried items does not        *)
(* change, whatever clicks and range selections arrive, and the commit of  *)
(* the drag moves the items that were carried before the committing frame. *)
(***************************************************************************)
PartIds(ds, els) == {els[i].id : i \in PartIndices(ds, els)}

C18_CarriedSetIsFrozen ==
  [][(have_active_drag(drag_state) /\ ~panicked' /\ begin_drag_args' = None) =>
       /\ have_active_drag(drag_state') =>
            PartIds(drag_state', elements') = PartIds(drag_state, elements)
       /\ committed' =>
            LET s == IF host_dragging' THEN split_point' ELSE split_point
            IN IsPartitionOf(elements', elements, s, PartIndices(drag_state, elements))]_vars

(***************************************************************************)
(* C19: a call of clear_drag_state leaves no DragState, and a further call *)
(* for the same drag, whatever the split point by then, changes neither    *)
(* the order of the items nor a selected flag and commits nothing: the     *)
(* reorder of a drag is applied once.                                      *)
(***************************************************************************)
C19_SecondCallChangesNothing ==
  frames = 1 =>
    /\ drag_state = None
    /\ elements' = elements
    /\ drag_state' = None
    /\ ~committed'

C19_CommitAppliedOnce ==
  /\ [](frames >= 1 => drag_state = None)
  /\ [][C19_SecondCallChangesNothing]_vars

\* clear_drag_state has run twice on a drag that reordered the list
C19_Witness ==
  /\ frames = 2
  /\ Ids(elements) /= [i \in 1..Len(elements) |-> i - 1]
  /\ drag_state = None

(***************************************************************************)
(* C20: whenever a DragState exists its dragged_id is the id of an item of *)
(* the list that is not a header, and no frame fails in the lookup of the  *)
(* grabbed element.                                                        *)
(***************************************************************************)
C20_GrabbedItemIsPresent ==
  /\ ~panicked
  /\ IsSome(drag_state) =>
       /\ Position(elements, Unwrap(drag_state).dragged_id) /= 0
       /\ ~IsHeader(elements[Position(elements, Unwrap(drag_state).dragged_id)])

\* a drag has started on an element that a commit has moved from its first index
C20_Witness ==
  /\ IsSome(drag_state)
  /\ committed
  /\ Position(elements, Unwrap(drag_state).dragged_id) /= Unwrap(drag_state).dragged_id + 1

====
